---------------------------- MODULE Spec2Model ----------------------------
(***************************************************************************)
(* Model of safe_transaction_service/history/services/index_service.py     *)
(* (class IndexService): the Reprocess Controller (_reprocess,             *)
(* reprocess_addresses, reprocess_all) and the Reconciliation Engine       *)
(* (block_get_or_create_from_block_hash, tx_create_or_update_from_tx_hash, *)
(* txs_create_or_update_from_tx_hashes) and the Reindex Loop               *)
(* (reindex_master_copies).                                                *)
(***************************************************************************)
EXTENDS Integers, Sequences, FiniteSets, TLC

VARIABLES
    derived,    \* committed content of the five derived tables
    txn,        \* content seen inside the open transaction of _reprocess
    rp,         \* the reprocess call in progress: pc, op, addresses, ghosts
    env,        \* the scenario: active workers, call inputs, node behaviour
    height,     \* ethereum_client.current_block_number
    chain,      \* what the node knows of each tx hash: unknown/pending/mined
    dbBlocks,   \* EthereumBlock table
    dbTxs,      \* EthereumTx table
    wk,         \* per worker: the call in progress, its locals and ghosts
    last,       \* per worker: its previous successfully completed call
    ri          \* the reindex_master_copies call in progress

rvars == <<derived, txn, rp>>

cvars == <<env, height, chain, dbBlocks, dbTxs, wk, last, ri>>

\* everything but the reindex call
ovars == <<derived, txn, rp, env, height, chain, dbBlocks, dbTxs, wk, last>>

vars == <<derived, txn, rp, env, height, chain, dbBlocks, dbTxs, wk, last, ri>>

(***************************************************************************)
(* Reprocess Controller                                                    *)
(***************************************************************************)

\* Python None for a nullable column (signature, ethereum_tx).
None == "None"

Addresses == {"A", "B"}

\* Row universes of the derived tables.  Each row carries the column the
\* code filters on (safe / address / internal_tx._from).
ConfirmationRows == [safe : Addresses, signature : {None, "sig"}]
MultisigRows == [safe : Addresses, ethereum_tx : {None, "tx"}]
ModuleRows == [safe : Addresses]
SafeStatusRows == [address : Addresses]
InternalTxRows == [from : Addresses, processed : BOOLEAN]

Stores ==
    [confirmations : SUBSET ConfirmationRows,
     multisig : SUBSET MultisigRows,
     module : SUBSET ModuleRows,
     status : SUBSET SafeStatusRows,
     internal : {s \in SUBSET InternalTxRows :
                    \A x, y \in s : x.from = y.from => x = y}]

\* A filter that is never applied.
FilterInAll(rows, col, addresses) == rows

\* `if addresses: queryset = queryset.filter(<col>__in=addresses)`
FilterIn(rows, col, addresses) ==
    IF addresses # {} THEN {r \in rows : r[col] \in addresses} ELSE rows

\* A first step that runs whatever the addresses are.
AlwaysDeletes(addresses) == TRUE

\* line 218: `if not addresses:` guards the delete of the confirmations.
DeletesConfirmations(addresses) == addresses = {}

\* lines 217-220: the queryset is deleted only when `not addresses`.
ConfirmationsToDelete(st, addresses) ==
    LET queryset == {r \in st.confirmations : r.signature = None}
    IN  IF DeletesConfirmations(addresses) THEN queryset ELSE {}

\* A multisig delete without `.exclude(ethereum_tx=None)`.
MultisigToDeleteAny(st, addresses) ==
    FilterIn(st.multisig, "safe", addresses)

\* lines 223-226
MultisigToDelete(st, addresses) ==
    FilterIn({r \in st.multisig : r.ethereum_tx # None}, "safe", addresses)

\* lines 229-232
ModuleToDelete(st, addresses) == FilterIn(st.module, "safe", addresses)

\* lines 236-239
StatusToDelete(st, addresses) == FilterIn(st.status, "address", addresses)

\* lines 242-245
InternalToUpdate(st, addresses) == FilterIn(st.internal, "from", addresses)

\* A write that is committed as it is made (no enclosing transaction).
Autocommit(committed, working) == working

\* What a write made inside `@transaction.atomic` leaves in the committed
\* store before the commit: nothing.
CommittedAfterWrite(committed, working) == committed

\* What an exception leaving the atomic block restores.
RolledBack(committed, working) == committed

RpIdle ==
    [pc |-> "idle", op |-> "none", addresses |-> {}, before |-> derived,
     issued |-> {}]

\* A call that never returns early.
NeverShortCircuits(addresses) == FALSE

\* lines 255-256: `if not addresses: return`
ShortCircuits(addresses) == addresses = {}

\* reprocess_addresses(addresses), lines 255-258
ReprocessAddresses(addresses) ==
    /\ rp.pc = "idle"
    /\ UNCHANGED cvars
    /\ IF ShortCircuits(addresses)
       THEN rp' = [pc |-> "returned", op |-> "reprocess_addresses",
                   addresses |-> addresses, before |-> derived,
                   issued |-> {}]
       ELSE rp' = [pc |-> "s1", op |-> "reprocess_addresses",
                   addresses |-> addresses, before |-> derived,
                   issued |-> {}]
    /\ txn' = derived
    /\ UNCHANGED derived

\* reprocess_all(), line 261: _reprocess(None); None is falsy like [].
ReprocessAll ==
    /\ rp.pc = "idle"
    /\ UNCHANGED cvars
    /\ rp' = [pc |-> "s1", op |-> "reprocess_all", addresses |-> {},
              before |-> derived, issued |-> {}]
    /\ txn' = derived
    /\ UNCHANGED derived

Issue(step, kind, table, rows) ==
    rp.issued \cup {[step |-> step, kind |-> kind, table |-> table,
                     rows |-> rows]}

Step1 ==
    /\ rp.pc = "s1"
    /\ UNCHANGED cvars
    /\ LET del == ConfirmationsToDelete(txn, rp.addresses)
           new == [txn EXCEPT !.confirmations = @ \ del]
       IN  /\ txn' = new
           /\ derived' = CommittedAfterWrite(derived, new)
           /\ rp' = [rp EXCEPT !.pc = "s2",
                        !.issued = IF DeletesConfirmations(rp.addresses)
                                   THEN Issue(1, "delete", "confirmations", del)
                                   ELSE @]

Step2 ==
    /\ rp.pc = "s2"
    /\ UNCHANGED cvars
    /\ LET del == MultisigToDelete(txn, rp.addresses)
           new == [txn EXCEPT !.multisig = @ \ del]
       IN  /\ txn' = new
           /\ derived' = CommittedAfterWrite(derived, new)
           /\ rp' = [rp EXCEPT !.pc = "s3",
                        !.issued = Issue(2, "delete", "multisig", del)]

Step3 ==
    /\ rp.pc = "s3"
    /\ UNCHANGED cvars
    /\ LET del == ModuleToDelete(txn, rp.addresses)
           new == [txn EXCEPT !.module = @ \ del]
       IN  /\ txn' = new
           /\ derived' = CommittedAfterWrite(derived, new)
           /\ rp' = [rp EXCEPT !.pc = "s4",
                        !.issued = Issue(3, "delete", "module", del)]

Step4 ==
    /\ rp.pc = "s4"
    /\ UNCHANGED cvars
    /\ LET del == StatusToDelete(txn, rp.addresses)
           new == [txn EXCEPT !.status = @ \ del]
       IN  /\ txn' = new
           /\ derived' = CommittedAfterWrite(derived, new)
           /\ rp' = [rp EXCEPT !.pc = "s5",
                        !.issued = Issue(4, "delete", "status", del)]

Step5 ==
    /\ rp.pc = "s5"
    /\ UNCHANGED cvars
    /\ LET upd == InternalToUpdate(txn, rp.addresses)
           new == [txn EXCEPT !.internal =
                       (@ \ upd) \cup {[r EXCEPT !.processed = FALSE] : r \in upd}]
       IN  /\ txn' = new
           /\ derived' = CommittedAfterWrite(derived, new)
           /\ rp' = [rp EXCEPT !.pc = "commit",
                        !.issued = Issue(5, "update", "internal", upd)]

\* Leaving the atomic block normally commits the working content.
Commit ==
    /\ rp.pc = "commit"
    /\ UNCHANGED cvars
    /\ derived' = txn
    /\ rp' = [rp EXCEPT !.pc = "returned"]
    /\ UNCHANGED txn

\* Any of the five statements may raise (a database error); the exception
\* leaves the atomic block and the transaction is rolled back.
StepFails ==
    /\ rp.pc \in {"s1", "s2", "s3", "s4", "s5"}
    /\ UNCHANGED cvars
    /\ derived' = RolledBack(derived, txn)
    /\ txn' = RolledBack(derived, txn)
    /\ rp' = [rp EXCEPT !.pc = "failed"]

\* The caller has the outcome; the controller is free for the next call.
ReprocessDone ==
    /\ rp.pc \in {"returned", "failed"}
    /\ UNCHANGED cvars
    /\ rp' = [pc |-> "idle", op |-> "none", addresses |-> {},
              before |-> derived, issued |-> {}]
    /\ txn' = derived
    /\ UNCHANGED derived

(***************************************************************************)
(* Properties of the Reprocess Controller (checked under SpecReprocess)    *)
(***************************************************************************)

\* The address a derived row belongs to.
Outside(rows, col, S) == {r \in rows : r[col] \notin S}

ScopedCallReturned ==
    rp.pc = "returned" /\ rp.op = "reprocess_addresses" /\ rp.addresses # {}

GlobalCallReturned == rp.pc = "returned" /\ rp.op = "reprocess_all"

\* The rows of `st` that the five steps, scoped to `addresses`, still have
\* to delete or reset.
StillStale(st, addresses) ==
    ConfirmationsToDelete(st, addresses)
    \cup MultisigToDelete(st, addresses)
    \cup ModuleToDelete(st, addresses)
    \cup StatusToDelete(st, addresses)
    \cup {r \in InternalToUpdate(st, addresses) : r.processed}

\* C1: after reprocess_addresses(S), S non-empty, every derived row of an
\* address outside S is as it was and every statement issued touched rows of
\* S only; after reprocess_all() the rows the steps target are gone or reset
\* for every address.
C1_ReprocessScoping ==
    /\ ScopedCallReturned =>
          /\ Outside(derived.confirmations, "safe", rp.addresses)
                = Outside(rp.before.confirmations, "safe", rp.addresses)
          /\ Outside(derived.multisig, "safe", rp.addresses)
                = Outside(rp.before.multisig, "safe", rp.addresses)
          /\ Outside(derived.module, "safe", rp.addresses)
                = Outside(rp.before.module, "safe", rp.addresses)
          /\ Outside(derived.status, "address", rp.addresses)
                = Outside(rp.before.status, "address", rp.addresses)
          /\ Outside(derived.internal, "from", rp.addresses)
                = Outside(rp.before.internal, "from", rp.addresses)
          /\ \A st \in rp.issued : \A r \in st.rows :
                \/ st.table \in {"confirmations", "multisig", "module"}
                   /\ r.safe \in rp.addresses
                \/ st.table = "status" /\ r.address \in rp.addresses
                \/ st.table = "internal" /\ r.from \in rp.addresses
    /\ GlobalCallReturned =>
          /\ \A r \in derived.multisig : r.ethereum_tx = None
          /\ \A r \in derived.confirmations : r.signature # None
          /\ derived.module = {}
          /\ derived.status = {}
          /\ \A r \in derived.internal : ~r.processed
          /\ {r.from : r \in derived.internal}
                = {r.from : r \in rp.before.internal}

\* A scoped call that deleted rows of A and left rows of B of every table.
C1_Witness ==
    /\ ScopedCallReturned
    /\ rp.addresses = {"A"}
    /\ \E r \in rp.before.multisig : r.safe = "A" /\ r.ethereum_tx # None
    /\ \E r \in derived.multisig : r.safe = "B" /\ r.ethereum_tx # None
    /\ [safe |-> "A"] \in rp.before.module /\ [safe |-> "B"] \in derived.module
    /\ [address |-> "B"] \in derived.status
    /\ [from |-> "B", processed |-> TRUE] \in derived.internal
    /\ [from |-> "A", processed |-> FALSE] \in derived.internal
    /\ derived # rp.before

\* C2 (as claimed): after reprocess_addresses(S), S non-empty, no on-chain
\* confirmation without signature of an address of S is left; after
\* reprocess_all() none is left at all.
C2_ScopedConfirmationsDeleted ==
    /\ ScopedCallReturned =>
          \A r \in derived.confirmations :
             ~(r.signature = None /\ r.safe \in rp.addresses)
    /\ GlobalCallReturned =>
          \A r \in derived.confirmations : r.signature # None

\* C2 (amended): step 1 runs only when no addresses are given.  After
\* reprocess_all() every confirmation without signature has been deleted by
\* step 1; reprocess_addresses(S), S non-empty, issues no delete on the
\* confirmations and leaves that table as it was.
C2_ConfirmationsDeletedOnlyByReprocessAll ==
    /\ GlobalCallReturned =>
          /\ \A r \in derived.confirmations : r.signature # None
          /\ [step |-> 1, kind |-> "delete", table |-> "confirmations",
              rows |-> {r \in rp.before.confirmations : r.signature = None}]
                \in rp.issued
    /\ ScopedCallReturned =>
          /\ derived.confirmations = rp.before.confirmations
          /\ \A st \in rp.issued : st.table # "confirmations"

\* Both cases with a confirmation without signature in the store.
C2_Witness ==
    /\ ScopedCallReturned
    /\ \E r \in derived.confirmations :
          r.signature = None /\ r.safe \in rp.addresses

C2_WitnessAll ==
    /\ GlobalCallReturned
    /\ \E r \in rp.before.confirmations : r.signature = None

\* C3: reprocess_addresses([]) issues no statement and leaves every derived
\* table as it was.
C3_ReprocessNoOp ==
    (rp.op = "reprocess_addresses" /\ rp.addresses = {}) =>
        /\ rp.pc = "returned"
        /\ rp.issued = {}
        /\ derived = rp.before
        /\ txn = rp.before

\* The empty call on a store that reprocess_all() would have changed.
C3_Witness ==
    /\ rp.op = "reprocess_addresses" /\ rp.addresses = {}
    /\ rp.pc = "returned"
    /\ StillStale(derived, {}) # {}

InsideTransaction == rp.pc \in {"s1", "s2", "s3", "s4", "s5", "commit"}

\* C4: while the five steps run, and after any of them failed, the committed
\* tables are as they were before the call; once the call has returned, all
\* five steps have taken effect.
C4_AtomicInvalidation ==
    /\ (InsideTransaction \/ rp.pc = "failed") => derived = rp.before
    /\ (ScopedCallReturned \/ GlobalCallReturned) =>
          /\ StillStale(derived, rp.addresses) = {}
          /\ derived = txn

\* A call that failed after a step had deleted rows.
C4_Witness ==
    /\ rp.pc = "failed"
    /\ \E st \in rp.issued : st.step = 2 /\ st.rows # {}
    /\ \E st \in rp.issued : st.step = 4 /\ st.rows # {}

\* Rows that exist only off-chain: a multisig transaction without on-chain
\* transaction, a confirmation that carries a signature.
OffChainMultisig(st) == {r \in st.multisig : r.ethereum_tx = None}
SignedConfirmations(st) == {r \in st.confirmations : r.signature # None}

\* C19 (SpecReprocess): no statement issued by a reprocess call, whatever its
\* addresses, deletes a multisig transaction without on-chain transaction or
\* a confirmation with a signature: the multisig delete holds only rows with
\* an on-chain transaction, the confirmation delete only rows without
\* signature, and every off-chain row the call found is still stored.
C19_OffChainDataPreserved ==
    /\ \A st \in rp.issued :
          /\ st.table = "multisig" => \A r \in st.rows : r.ethereum_tx # None
          /\ st.table = "confirmations" => \A r \in st.rows : r.signature = None
    /\ OffChainMultisig(rp.before) \subseteq (txn.multisig \cap derived.multisig)
    /\ SignedConfirmations(rp.before)
          \subseteq (txn.confirmations \cap derived.confirmations)

\* reprocess_all has returned on a store that held, for one safe, an
\* off-chain and an indexed multisig transaction and a signed and an
\* unsigned confirmation: the indexed and the unsigned rows are gone.
C19_Witness ==
    /\ rp.op = "reprocess_all"
    /\ rp.pc = "returned"
    /\ OffChainMultisig(rp.before) # {}
    /\ SignedConfirmations(rp.before) # {}
    /\ rp.before.multisig \ derived.multisig # {}
    /\ rp.before.confirmations \ derived.confirmations # {}

(***************************************************************************)
(* Reconciliation Engine: the node, the store                              *)
(***************************************************************************)

W == {1, 2}

\* Canonical tx hashes ("0x.." lower-case hex strings) and block hashes.
Hashes == {"t1", "t2", "t3"}
BlockHashes == {"b1", "b2"}

\* The forms a caller may pass a hash in (Union[str, bytes]): the canonical
\* string, or another spelling of the same 32 bytes.
RawHashes == Hashes \cup {"T1", "T2", "T3"}

\* HexBytes(tx_hash).hex(): the canonical string of any form.
HexBytesHex(x) ==
    CASE x = "T1" -> "t1"
      [] x = "T2" -> "t2"
      [] x = "T3" -> "t3"
      [] OTHER -> x

\* The chain: the block each transaction is (or will be) mined in.
BlockOfTx == ("t1" :> "b1") @@ ("t2" :> "b2") @@ ("t3" :> "b2")
BlockNumber == ("b1" :> 1) @@ ("b2" :> 2)

\* settings.ETH_REORG_BLOCKS
eth_reorg_blocks == 2

MaxHeight == 3
MaxLen == 3

\* What an RPC call returns: a dict, or None (Absent).
Absent == [found |-> FALSE, hash |-> None, blockHash |-> None, number |-> 0]
Mined(h) ==
    [found |-> TRUE, hash |-> h, blockHash |-> BlockOfTx[h],
     number |-> BlockNumber[BlockOfTx[h]]]
NotMined(h) == [found |-> TRUE, hash |-> h, blockHash |-> None, number |-> 0]
BlockDict(bh) ==
    [found |-> TRUE, hash |-> bh, blockHash |-> bh, number |-> BlockNumber[bh]]

Flaky == IF env.flaky THEN {Absent} ELSE {}

\* ethereum_client.get_transaction_receipt(tx_hash)
NodeReceipt(h) ==
    (CASE chain[h] = "mined" -> {Mined(h)}
       [] chain[h] = "pending" -> {Absent, NotMined(h)}
       [] OTHER -> {Absent}) \cup Flaky

\* ethereum_client.get_transaction(tx_hash)
NodeTx(h) ==
    (CASE chain[h] = "mined" -> {Mined(h)}
       [] chain[h] = "pending" -> {NotMined(h)}
       [] OTHER -> {Absent}) \cup Flaky

\* ethereum_client.get_block(block_hash)
NodeBlock(bh) ==
    IF bh \in BlockHashes THEN {BlockDict(bh)} \cup Flaky ELSE {Absent}

\* An entry of a batch response: what the single call gives, or None.
BatchEntry(single) == single \cup Flaky

\* Rows of the store.
NoTx == [tx_hash |-> None, block |-> None]
NoBlock == [block_hash |-> None, number |-> 0, confirmed |-> FALSE]

TxRows(h) == {r \in dbTxs : r.tx_hash = h}
BlockRows(bh) == {r \in dbBlocks : r.block_hash = bh}

\* A threshold one block short of the reorg depth.
ConfirmedEarly(current_block_number, number) ==
    (current_block_number - number) >= eth_reorg_blocks - 1

\* A confirmation test that is strict.
ConfirmedStrict(current_block_number, number) ==
    (current_block_number - number) > eth_reorg_blocks

\* `confirmed = (current_block_number - block["number"]) >= self.eth_reorg_blocks`
Confirmed(current_block_number, number) ==
    (current_block_number - number) >= eth_reorg_blocks

\* EthereumBlock.objects.get_or_create_from_block(block, confirmed): the row
\* of that hash if there is one, else a new row.
GetOrCreateFromBlock(block, confirmed) ==
    IF BlockRows(block.hash) # {}
    THEN CHOOSE r \in BlockRows(block.hash) : TRUE
    ELSE [block_hash |-> block.hash, number |-> block.number,
          confirmed |-> confirmed]

\* EthereumTx.objects.create_from_tx_dict: raises IntegrityError when a row
\* of that hash exists.
CanCreateTx(h) == TxRows(h) = {}

\* ethereum_tx.update_with_block_and_receipt(ethereum_block, tx_receipt) on
\* the object in memory: fills the block of a block-less object.
UpdateWithBlockAndReceipt(ethereum_tx, ethereum_block) ==
    IF ethereum_tx.block = None
    THEN [ethereum_tx EXCEPT !.block = ethereum_block.block_hash]
    ELSE ethereum_tx

\* The UPDATE that save() of the updated object runs, by primary key.
SaveTx(old, new) ==
    IF old.block = None
    THEN {IF r.tx_hash = new.tx_hash THEN [r EXCEPT !.block = new.block] ELSE r :
             r \in dbTxs}
    ELSE dbTxs

(***************************************************************************)
(* Ordered dict and list helpers                                           *)
(***************************************************************************)

Range(s) == {s[i] : i \in 1..Len(s)}

\* A dict that keeps an entry for every occurrence of a key.
FromKeysNoDedupe(keys) == [j \in 1..Len(keys) |-> [key |-> keys[j], value |-> NoTx]]

RECURSIVE FromKeys(_)
\* OrderedDict.fromkeys(keys): first occurrence of each key, value None.
FromKeys(keys) ==
    IF keys = <<>> THEN <<>>
    ELSE LET front == FromKeys(SubSeq(keys, 1, Len(keys) - 1))
             k == keys[Len(keys)]
         IN  IF \E j \in 1..Len(front) : front[j].key = k
             THEN front
             ELSE Append(front, [key |-> k, value |-> NoTx])

\* d[k] = v: replaces the value of an existing key, appends a new key.
DictSet(d, k, v) ==
    IF \E j \in 1..Len(d) : d[j].key = k
    THEN [j \in 1..Len(d) |-> IF d[j].key = k THEN [key |-> k, value |-> v]
                                              ELSE d[j]]
    ELSE Append(d, [key |-> k, value |-> v])

RECURSIVE FillFromDb(_, _)
\* for db_ethereum_tx in db_ethereum_txs: dict[db_ethereum_tx.tx_hash] = ...
FillFromDb(d, rows) ==
    IF rows = {} THEN d
    ELSE LET r == CHOOSE r \in rows : TRUE
         IN  FillFromDb(DictSet(d, r.tx_hash, r), rows \ {r})

DictValues(d) == [j \in 1..Len(d) |-> d[j].value]
DictKeys(d) == [j \in 1..Len(d) |-> d[j].key]

MapSeq(s, Op(_)) == [j \in 1..Len(s) |-> Op(s[j])]

RECURSIVE Product(_)
\* All sequences picking one element of each set of a sequence of sets.
Product(sets) ==
    IF sets = <<>> THEN {<<>>}
    ELSE {Append(p, x) : p \in Product(SubSeq(sets, 1, Len(sets) - 1)),
                         x \in sets[Len(sets)]}

RECURSIVE Perms(_)
Perms(S) ==
    IF S = {} THEN {<<>>}
    ELSE UNION {{<<x>> \o p : p \in Perms(S \ {x})} : x \in S}

\* Index of the first item the fetch loop raises on, 0 if none.
FirstBad(final, Bad(_)) ==
    IF \E j \in 1..Len(final) : Bad(final[j])
    THEN CHOOSE j \in 1..Len(final) :
             Bad(final[j]) /\ \A k \in 1..(j - 1) : ~Bad(final[k])
    ELSE 0

\* An entry of the RPC log: the request and, per item asked for, whether
\* the node's answer held it.
Exchange(call, arg, answers) ==
    [call |-> call, arg |-> arg,
     found |-> [j \in 1..Len(answers) |-> answers[j].found]]

\* A loop that retries every missing item, also past the one it raises on.
RetryLogAll(call, keys, batch, retry, upto) ==
    LET missing == SelectSeq([j \in 1..Len(keys) |-> j],
                             LAMBDA j : ~batch[j].found)
    IN  [k \in 1..Len(missing) |->
            Exchange(call, <<keys[missing[k]]>>, <<retry[missing[k]]>>)]

RECURSIVE RetryLog(_, _, _, _, _)
\* The per-item calls `x or single(hash)` makes for items 1..upto.
RetryLog(call, keys, batch, retry, upto) ==
    IF upto = 0 THEN <<>>
    ELSE RetryLog(call, keys, batch, retry, upto - 1) \o
         (IF batch[upto].found THEN <<>>
          ELSE <<Exchange(call, <<keys[upto]>>, <<retry[upto]>>)>>)

(***************************************************************************)
(* Reconciliation Engine: the calls                                        *)
(***************************************************************************)

Idle ==
    [pc |-> "idle", op |-> "none", arg |-> <<>>, error |-> "none",
     result |-> <<>>, caller |-> "none", block_hash |-> None,
     ethereum_tx |-> NoTx, tx_receipt |-> Absent, tx |-> Absent,
     block |-> Absent, ethereum_block |-> NoBlock,
     current_block_number |-> 0,
     dict |-> <<>>, not_in_db |-> <<>>, tx_receipts |-> <<>>, txs |-> <<>>,
     block_dict |-> {}, i |-> 0,
     rpc |-> <<>>, writes |-> 0, created |-> {}, lost |-> {},
     dbBlocks0 |-> {}, dbTxs0 |-> {}]

NoLast == [op |-> "none", arg |-> <<>>, result |-> <<>>]

\* Ghost: the store as the call found it (kept when env.track).
Snapshot(table) == IF env.track THEN table ELSE {}

\* Ghosts: the RPC calls and the store writes a call made (when env.track).
Logged(log) == IF env.track THEN log ELSE <<>>
Written(n) == IF env.track THEN n ELSE 0

\* The call ends: its locals are gone, its outcome and ghosts are left.
Ended(w, pc, kind, rows, writes, log) ==
    [Idle EXCEPT !.pc = pc, !.op = wk[w].op, !.arg = wk[w].arg,
                 !.error = kind, !.result = rows,
                 !.rpc = wk[w].rpc \o Logged(log),
                 !.writes = wk[w].writes + Written(writes),
                 !.lost = wk[w].lost,
                 !.dbBlocks0 = wk[w].dbBlocks0, !.dbTxs0 = wk[w].dbTxs0]

\* A failure that hands back the rows resolved so far.
RaisePartial(w, kind, log) ==
    wk' = [wk EXCEPT ![w] =
              Ended(w, "failed", kind,
                    SelectSeq(DictValues(wk[w].dict), LAMBDA r : r # NoTx),
                    0, log)]

\* raise: the call ends with the exception and without result.
Raise(w, kind, log) ==
    wk' = [wk EXCEPT ![w] = Ended(w, "failed", kind, <<>>, 0, log)]

Returns(w, rows, writes) ==
    wk' = [wk EXCEPT ![w] = Ended(w, "done", "none", rows, writes, <<>>)]

\* A caller starts block_get_or_create_from_block_hash(block_hash).
CallBlock(w, bh) ==
    /\ wk[w].pc = "idle"
    /\ wk' = [wk EXCEPT ![w] = [Idle EXCEPT !.pc = "k_get", !.op = "block",
                  !.arg = <<bh>>, !.block_hash = bh, !.caller = "block",
                  !.dbBlocks0 = Snapshot(dbBlocks), !.dbTxs0 = Snapshot(dbTxs)]]
    /\ UNCHANGED <<rvars, ri, env, height, chain, dbBlocks, dbTxs, last>>

\* A caller starts tx_create_or_update_from_tx_hash(tx_hash).
CallTx(w, x) ==
    /\ wk[w].pc = "idle"
    /\ wk' = [wk EXCEPT ![w] = [Idle EXCEPT !.pc = "t_get", !.op = "tx",
                  !.arg = <<x>>,
                  !.dbBlocks0 = Snapshot(dbBlocks), !.dbTxs0 = Snapshot(dbTxs)]]
    /\ UNCHANGED <<rvars, ri, env, height, chain, dbBlocks, dbTxs, last>>

\* A caller starts txs_create_or_update_from_tx_hashes(tx_hashes).
CallBatch(w, tx_hashes) ==
    /\ wk[w].pc = "idle"
    /\ wk' = [wk EXCEPT ![w] = [Idle EXCEPT !.pc = "b_query", !.op = "batch",
                  !.arg = tx_hashes,
                  !.dbBlocks0 = Snapshot(dbBlocks), !.dbTxs0 = Snapshot(dbTxs)]]
    /\ UNCHANGED <<rvars, ri, env, height, chain, dbBlocks, dbTxs, last>>

\* Where block_get_or_create_from_block_hash returns to, with its row.
BlockReturns(w, row, writes) ==
    LET made == IF writes = 0 THEN {} ELSE {row.block_hash}
    IN  CASE wk[w].caller = "block" -> Returns(w, <<row>>, writes)
          [] wk[w].caller = "tx_update" ->
                wk' = [wk EXCEPT ![w].pc = "t_update",
                                 ![w].ethereum_block = row,
                                 ![w].created = @ \cup made,
                                 ![w].writes = @ + Written(writes)]
          [] OTHER ->
                wk' = [wk EXCEPT ![w].pc = "t_tx", ![w].ethereum_block = row,
                                 ![w].created = @ \cup made,
                                 ![w].writes = @ + Written(writes)]

\* line 72: EthereumBlock.objects.get(block_hash=block_hash)
BlockGet(w) ==
    /\ wk[w].pc = "k_get"
    /\ IF BlockRows(wk[w].block_hash) # {}
       THEN BlockReturns(w, CHOOSE r \in BlockRows(wk[w].block_hash) : TRUE,
                         0)
       ELSE wk' = [wk EXCEPT ![w].pc = "k_fetch"]
    /\ UNCHANGED <<rvars, ri, env, height, chain, dbBlocks, dbTxs, last>>

\* lines 74-80: current_block_number, get_block, confirmed
BlockFetch(w) ==
    /\ wk[w].pc = "k_fetch"
    /\ \E b \in NodeBlock(wk[w].block_hash) :
          LET log == <<Exchange("current_block_number", <<>>, <<>>),
                       Exchange("get_block", <<wk[w].block_hash>>, <<b>>)>>
          IN  IF b.found
              THEN wk' = [wk EXCEPT ![w].pc = "k_create", ![w].block = b,
                              ![w].current_block_number = height,
                              ![w].rpc = @ \o Logged(log)]
              ELSE Raise(w, "TypeError", log)
    /\ UNCHANGED <<rvars, ri, env, height, chain, dbBlocks, dbTxs, last>>

\* lines 81-83: get_or_create_from_block(block, confirmed=confirmed)
BlockCreate(w) ==
    /\ wk[w].pc = "k_create"
    /\ LET row == GetOrCreateFromBlock(wk[w].block,
                      Confirmed(wk[w].current_block_number, wk[w].block.number))
           new == IF row \in dbBlocks THEN 0 ELSE 1
       IN  /\ dbBlocks' = dbBlocks \cup {row}
           /\ BlockReturns(w, row, new)
    /\ UNCHANGED <<rvars, ri, env, height, chain, dbTxs, last>>

\* A hit that is always resolved again.
AlwaysNeedsBlock(ethereum_tx) == TRUE

\* line 89: `if ethereum_tx.block is None`
NeedsBlock(ethereum_tx) == ethereum_tx.block = None

\* lines 87-89 and 96: EthereumTx.objects.get(tx_hash=tx_hash)
TxGet(w) ==
    /\ wk[w].pc = "t_get"
    /\ LET h == HexBytesHex(wk[w].arg[1])
       IN  IF TxRows(h) # {}
           THEN LET r == CHOOSE r \in TxRows(h) : TRUE
                IN  IF NeedsBlock(r)
                    THEN wk' = [wk EXCEPT ![w].pc = "t_receipt",
                                    ![w].ethereum_tx = r,
                                    ![w].caller = "tx_update"]
                    ELSE Returns(w, <<r>>, 0)
           ELSE wk' = [wk EXCEPT ![w].pc = "t_receipt",
                           ![w].caller = "tx_create"]
    /\ UNCHANGED <<rvars, ri, env, height, chain, dbBlocks, dbTxs, last>>

\* lines 90 and 97: get_transaction_receipt, then tx_receipt["blockHash"]
TxReceipt(w) ==
    /\ wk[w].pc = "t_receipt"
    /\ LET h == HexBytesHex(wk[w].arg[1])
       IN  \E r \in NodeReceipt(h) :
              LET log == <<Exchange("get_transaction_receipt", <<h>>, <<r>>)>>
              IN
              IF r.found
              THEN wk' = [wk EXCEPT ![w].pc = "k_get", ![w].tx_receipt = r,
                              ![w].block_hash = r.blockHash,
                              ![w].rpc = @ \o Logged(log)]
              ELSE Raise(w, "TypeError", log)
    /\ UNCHANGED <<rvars, ri, env, height, chain, dbBlocks, dbTxs, last>>

\* line 94: ethereum_tx.update_with_block_and_receipt(ethereum_block, receipt)
TxUpdate(w) ==
    /\ wk[w].pc = "t_update"
    /\ LET obj == UpdateWithBlockAndReceipt(wk[w].ethereum_tx,
                                            wk[w].ethereum_block)
       IN  /\ dbTxs' = SaveTx(wk[w].ethereum_tx, obj)
           /\ Returns(w, <<obj>>, IF wk[w].ethereum_tx.block = None THEN 1 ELSE 0)
    /\ UNCHANGED <<rvars, ri, env, height, chain, dbBlocks, last>>

\* line 101: get_transaction(tx_hash)
TxFetchTx(w) ==
    /\ wk[w].pc = "t_tx"
    /\ LET h == HexBytesHex(wk[w].arg[1])
       IN  \E t \in NodeTx(h) :
              LET log == <<Exchange("get_transaction", <<h>>, <<t>>)>>
              IN
              IF t.found
              THEN wk' = [wk EXCEPT ![w].pc = "t_create", ![w].tx = t,
                              ![w].rpc = @ \o Logged(log)]
              ELSE Raise(w, "AttributeError", log)
    /\ UNCHANGED <<rvars, ri, env, height, chain, dbBlocks, dbTxs, last>>

\* What tx_create_or_update_from_tx_hash does when create_from_tx_dict
\* raises IntegrityError: nothing catches it (lines 96-104).
SingleDuplicate(w) == Raise(w, "IntegrityError", <<>>)

\* lines 102-104: EthereumTx.objects.create_from_tx_dict(...)
TxCreate(w) ==
    /\ wk[w].pc = "t_create"
    /\ LET h == wk[w].tx.hash
           row == [tx_hash |-> h, block |-> wk[w].ethereum_block.block_hash]
       IN  IF CanCreateTx(h)
           THEN /\ dbTxs' = dbTxs \cup {row}
                /\ Returns(w, <<row>>, 1)
           ELSE /\ SingleDuplicate(w)
                /\ UNCHANGED dbTxs
    /\ UNCHANGED <<rvars, ri, env, height, chain, dbBlocks, last>>

\* lines 110-126: the ordered dict, the store query, the hashes to fetch
BatchQuery(w) ==
    /\ wk[w].pc = "b_query"
    /\ LET keys == MapSeq(wk[w].arg, HexBytesHex)
           db_ethereum_txs ==
               {r \in dbTxs : r.tx_hash \in Range(keys) /\ r.block # None}
           d == FillFromDb(FromKeys(keys), db_ethereum_txs)
           missing == SelectSeq(d, LAMBDA e : e.value = NoTx)
       IN  IF missing = <<>>
           THEN Returns(w, DictValues(d), 0)
           ELSE wk' = [wk EXCEPT ![w].pc = "b_receipts", ![w].dict = d,
                           ![w].not_in_db = DictKeys(missing)]
    /\ UNCHANGED <<rvars, ri, env, height, chain, dbBlocks, dbTxs, last>>

\* What `x = x or single(hash)` leaves for each item: the batch entry when
\* there is one, else the retry's answer.
Resolved(batch, retry) ==
    [j \in 1..Len(batch) |-> IF batch[j].found THEN batch[j] ELSE retry[j]]

NotFound(x) == ~x.found
WithoutBlock(x) == x.found /\ x.blockHash = None
BadItem(x) == NotFound(x) \/ WithoutBlock(x)

\* lines 130-149: get_transaction_receipts, one retry per missing receipt
BatchReceipts(w) ==
    /\ wk[w].pc = "b_receipts"
    /\ LET keys == wk[w].not_in_db
           n == Len(keys)
       IN  \E batch \in Product([j \in 1..n |-> BatchEntry(NodeReceipt(keys[j]))]),
              retry \in Product([j \in 1..n |-> NodeReceipt(keys[j])]) :
              LET final == Resolved(batch, retry)
                  bad == FirstBad(final, BadItem)
                  log == <<Exchange("get_transaction_receipts", keys, batch)>>
                         \o RetryLog("get_transaction_receipt", keys, batch,
                                     retry, IF bad = 0 THEN n ELSE bad)
              IN  IF bad = 0
                  THEN wk' = [wk EXCEPT ![w].pc = "b_txs",
                                  ![w].tx_receipts = final, ![w].rpc = @ \o Logged(log)]
                  ELSE Raise(w, IF NotFound(final[bad])
                                THEN "TransactionNotFound"
                                ELSE "TransactionWithoutBlock", log)
    /\ UNCHANGED <<rvars, ri, env, height, chain, dbBlocks, dbTxs, last>>

\* lines 151-169: get_transactions, one retry per missing transaction
BatchTxs(w) ==
    /\ wk[w].pc = "b_txs"
    /\ LET keys == wk[w].not_in_db
           n == Len(keys)
       IN  \E batch \in Product([j \in 1..n |-> BatchEntry(NodeTx(keys[j]))]),
              retry \in Product([j \in 1..n |-> NodeTx(keys[j])]) :
              LET final == Resolved(batch, retry)
                  bad == FirstBad(final, BadItem)
                  log == <<Exchange("get_transactions", keys, batch)>>
                         \o RetryLog("get_transaction", keys, batch,
                                     retry, IF bad = 0 THEN n ELSE bad)
              IN  IF bad = 0
                  THEN wk' = [wk EXCEPT ![w].pc = "b_blocks",
                                  ![w].txs = final, ![w].rpc = @ \o Logged(log)]
                  ELSE Raise(w, IF NotFound(final[bad])
                                THEN "TransactionNotFound"
                                ELSE "TransactionWithoutBlock", log)
    /\ UNCHANGED <<rvars, ri, env, height, chain, dbBlocks, dbTxs, last>>

\* lines 171-185: get_blocks over the set of block hashes (in the set's
\* iteration order), one retry per missing block, then current_block_number
BatchBlocks(w) ==
    /\ wk[w].pc = "b_blocks"
    /\ \E block_hashes \in Perms({t.blockHash : t \in Range(wk[w].txs)}) :
          LET n == Len(block_hashes)
          IN  \E batch \in Product([j \in 1..n |->
                                       BatchEntry(NodeBlock(block_hashes[j]))]),
                 retry \in Product([j \in 1..n |-> NodeBlock(block_hashes[j])]) :
                 LET final == Resolved(batch, retry)
                     bad == FirstBad(final, NotFound)
                     log == <<Exchange("get_blocks", block_hashes, batch)>>
                            \o RetryLog("get_block", block_hashes, batch,
                                        retry, IF bad = 0 THEN n ELSE bad)
                 IN  IF bad = 0
                     THEN wk' = [wk EXCEPT ![w].pc = "b_block", ![w].i = 1,
                                     ![w].block_dict = Range(final),
                                     ![w].current_block_number = height,
                                     ![w].rpc = @ \o Logged(log \o
                                        <<Exchange("current_block_number",
                                                   <<>>, <<>>)>>)]
                     ELSE Raise(w, "BlockNotFound", log)
    /\ UNCHANGED <<rvars, ri, env, height, chain, dbBlocks, dbTxs, last>>

\* The end of one iteration of the loop of line 186.
BatchNext(w, d, writes) ==
    IF wk[w].i = Len(wk[w].txs)
    THEN Returns(w, DictValues(d), writes)
    ELSE wk' = [wk EXCEPT ![w].pc = "b_block", ![w].dict = d,
                    ![w].i = @ + 1, ![w].writes = @ + Written(writes)]

\* A batch that reads the chain height again for each block.
BatchHeightLive(w) == height

\* lines 185-190: the height every iteration of the loop computes confirmed
\* against is the one read before the loop.
BatchHeight(w) == wk[w].current_block_number

\* lines 187-195: block_dict[tx["blockHash"]], confirmed, get_or_create
BatchBlock(w) ==
    /\ wk[w].pc = "b_block"
    /\ LET tx == wk[w].txs[wk[w].i]
           block == CHOOSE b \in wk[w].block_dict : b.hash = tx.blockHash
           row == GetOrCreateFromBlock(block,
                      Confirmed(BatchHeight(w), block.number))
       IN  /\ dbBlocks' = dbBlocks \cup {row}
           /\ wk' = [wk EXCEPT ![w].pc = "b_create", ![w].ethereum_block = row,
                         ![w].created =
                             IF row \in dbBlocks THEN @ ELSE @ \cup {row.block_hash},
                         ![w].writes =
                             @ + Written(IF row \in dbBlocks THEN 0 ELSE 1)]
    /\ UNCHANGED <<rvars, ri, env, height, chain, dbTxs, last>>

\* A batch that lets the IntegrityError through.
BatchDuplicateRaises(w) == Raise(w, "IntegrityError", <<>>)

\* What the batch does when create_from_tx_dict raises IntegrityError
\* (line 202): go on to fetch the existing row.
BatchDuplicate(w) == wk' = [wk EXCEPT ![w].pc = "b_get"]

\* lines 196-202: create_from_tx_dict inside transaction.atomic()
BatchCreate(w) ==
    /\ wk[w].pc = "b_create"
    /\ LET tx == wk[w].txs[wk[w].i]
           row == [tx_hash |-> tx.hash,
                   block |-> wk[w].ethereum_block.block_hash]
       IN  IF CanCreateTx(tx.hash)
           THEN /\ dbTxs' = dbTxs \cup {row}
                /\ BatchNext(w, DictSet(wk[w].dict, HexBytesHex(row.tx_hash), row), 1)
           ELSE /\ BatchDuplicate(w)
                /\ UNCHANGED dbTxs
    /\ UNCHANGED <<rvars, ri, env, height, chain, dbBlocks, last>>

\* line 203: EthereumTx.objects.get(tx_hash=tx["hash"])
BatchGet(w) ==
    /\ wk[w].pc = "b_get"
    /\ LET r == CHOOSE r \in TxRows(wk[w].txs[wk[w].i].hash) : TRUE
       IN  wk' = [wk EXCEPT ![w].pc = "b_update", ![w].ethereum_tx = r,
                        ![w].lost = @ \cup {r}]
    /\ UNCHANGED <<rvars, ri, env, height, chain, dbBlocks, dbTxs, last>>

\* An update that is handed no block.
UpdateArgumentNone(ethereum_block) == NoBlock

\* line 205: the block handed to update_with_block_and_receipt is the row
\* get_or_create_from_block returned (lines 191-195).
UpdateArgument(ethereum_block) == ethereum_block

\* lines 205-206: update_with_block_and_receipt, then the dict entry
BatchUpdate(w) ==
    /\ wk[w].pc = "b_update"
    /\ LET obj == UpdateWithBlockAndReceipt(wk[w].ethereum_tx,
                                            UpdateArgument(wk[w].ethereum_block))
       IN  /\ dbTxs' = SaveTx(wk[w].ethereum_tx, obj)
           /\ BatchNext(w, DictSet(wk[w].dict, obj.tx_hash, obj),
                        IF wk[w].ethereum_tx.block = None THEN 1 ELSE 0)
    /\ UNCHANGED <<rvars, ri, env, height, chain, dbBlocks, last>>

\* The caller takes the outcome; the worker is free for its next call.
Return(w) ==
    /\ wk[w].pc \in {"done", "failed"}
    /\ wk' = [wk EXCEPT ![w] = Idle]
    /\ last' = IF env.track /\ wk[w].pc = "done" /\ wk[w].op # "batch"
               THEN [last EXCEPT ![w] =
                        [op |-> wk[w].op,
                         arg |-> MapSeq(wk[w].arg, HexBytesHex),
                         result |-> wk[w].result]]
               ELSE last
    /\ UNCHANGED <<rvars, ri, env, height, chain, dbBlocks, dbTxs>>

\* The chain grows by one block.
NewBlock ==
    /\ height < MaxHeight
    /\ height' = height + 1
    /\ UNCHANGED <<rvars, ri, env, chain, dbBlocks, dbTxs, wk, last>>

\* A pending transaction is mined: the node now reports its receipt.
MineTx(h) ==
    /\ chain[h] = "pending"
    /\ chain' = [chain EXCEPT ![h] = "mined"]
    /\ UNCHANGED <<rvars, ri, env, height, dbBlocks, dbTxs, wk, last>>

(***************************************************************************)
(* Properties of the Reconciliation Engine                                 *)
(***************************************************************************)

\* The distinct hashes of an input in first-seen order, whatever their form.
FirstSeen(tx_hashes) ==
    LET keep == {j \in 1..Len(tx_hashes) :
                    \A k \in 1..(j - 1) :
                       HexBytesHex(tx_hashes[k]) # HexBytesHex(tx_hashes[j])}
        nth[n \in 0..Len(tx_hashes)] ==
            IF n = 0 THEN <<>>
            ELSE IF n \in keep THEN Append(nth[n - 1], HexBytesHex(tx_hashes[n]))
                 ELSE nth[n - 1]
    IN  nth[Len(tx_hashes)]

NoDuplicates(s) == \A j, k \in 1..Len(s) : s[j] = s[k] => j = k

Calls(w, call) == SelectSeq(wk[w].rpc, LAMBDA c : c.call = call)

\* C5 (SpecBatch): a batch call that returns gives one Transaction per
\* distinct input hash, the i-th being the stored, block-linked row of the
\* i-th distinct hash in first-seen order; the hashes it asks the node for in
\* the batch fetches are the distinct hashes the store had no block-linked
\* row for, each once.
C5_BatchOrderPreservation ==
    \A w \in env.workers :
       LET distinct == FirstSeen(wk[w].arg)
           missing == SelectSeq(distinct, LAMBDA h :
                         ~\E r \in wk[w].dbTxs0 : r.tx_hash = h /\ r.block # None)
       IN  /\ (wk[w].op = "batch" /\ wk[w].pc = "done") =>
                 /\ Len(wk[w].result) = Len(distinct)
                 /\ \A j \in 1..Len(distinct) :
                       /\ wk[w].result[j].tx_hash = distinct[j]
                       /\ wk[w].result[j].block # None
                       /\ wk[w].result[j] \in dbTxs
                 /\ Len(Calls(w, "get_transaction_receipts"))
                       = (IF missing = <<>> THEN 0 ELSE 1)
                 /\ Len(Calls(w, "get_transactions"))
                       = (IF missing = <<>> THEN 0 ELSE 1)
           /\ (wk[w].op = "batch") =>
                 \A c \in Range(wk[w].rpc) :
                    c.call \in {"get_transaction_receipts", "get_transactions"}
                       => c.arg = missing /\ NoDuplicates(c.arg)

\* A batch over t3 (not stored), t1 in two forms (stored with its block) and
\* t2 (stored without block) has returned.
C5_Witness ==
    /\ wk[1].op = "batch" /\ wk[1].pc = "done"
    /\ wk[1].arg = <<"t3", "T1", "t2">>
    /\ [tx_hash |-> "t1", block |-> "b1"] \in wk[1].dbTxs0
    /\ [tx_hash |-> "t2", block |-> None] \in wk[1].dbTxs0
    /\ ~\E r \in wk[1].dbTxs0 : r.tx_hash = "t3"
    /\ wk[1].result = <<[tx_hash |-> "t3", block |-> "b2"],
                        [tx_hash |-> "t1", block |-> "b1"],
                        [tx_hash |-> "t2", block |-> "b2"]>>

\* The row a returned batch gives for hash h.
ResultFor(w, h) ==
    {wk[w].result[j] : j \in {k \in 1..Len(wk[w].result) :
                                 wk[w].result[k].tx_hash = h}}

\* C6 (Spec): however two batch calls interleave, a hash has at most one
\* row, no batch call ends with the duplicate-key error, and a call whose
\* create hit an existing row returns that stored row, block-linked: the row
\* as it found it when it had a block, else the row with the call's own
\* block merged in.
C6_BatchRaceRecovery ==
    /\ \A h \in Hashes : Cardinality(TxRows(h)) <= 1
    /\ \A w \in env.workers :
          /\ wk[w].op = "batch" => wk[w].error # "IntegrityError"
          /\ (wk[w].op = "batch" /\ wk[w].pc = "done") =>
                \A r \in wk[w].lost :
                   /\ Cardinality(TxRows(r.tx_hash)) = 1
                   /\ ResultFor(w, r.tx_hash) = TxRows(r.tx_hash)
                   /\ \A x \in ResultFor(w, r.tx_hash) :
                         /\ x.block # None
                         /\ r.block # None => x = r
                         /\ r.block = None =>
                               x = [r EXCEPT !.block = BlockOfTx[r.tx_hash]]

\* Two batch calls on t1, not stored when they started: the second lost the
\* race and has returned the row the first created.
C6_Witness ==
    /\ wk[1].op = "batch" /\ wk[1].pc = "done" /\ wk[1].lost = {}
    /\ wk[1].result = <<[tx_hash |-> "t1", block |-> "b1"]>>
    /\ wk[2].op = "batch" /\ wk[2].pc = "done"
    /\ wk[2].lost = {[tx_hash |-> "t1", block |-> "b1"]}
    /\ wk[2].result = <<[tx_hash |-> "t1", block |-> "b1"]>>

\* C7 (Spec, as claimed): a single-hash call never ends with the
\* duplicate-key error.
C7_SingleNeverDuplicateKey ==
    \A w \in env.workers :
       wk[w].op = "tx" => wk[w].error # "IntegrityError"

\* The previous completed call of the caller was the same call.
Repeated(w) ==
    /\ wk[w].op \in {"block", "tx"}
    /\ last[w].op = wk[w].op
    /\ last[w].arg = MapSeq(wk[w].arg, HexBytesHex)

\* C8 (SpecSingle): a single-hash call that repeats the caller's previous
\* completed call goes from its store lookup straight to its return: no RPC
\* call, no write, the same row as before, which is the one row stored for
\* the hash.
C8_Idempotence ==
    \A w \in env.workers :
       Repeated(w) =>
          /\ wk[w].pc \in {"k_get", "t_get", "done"}
          /\ wk[w].rpc = <<>>
          /\ wk[w].writes = 0
          /\ wk[w].pc = "done" =>
                /\ wk[w].result = last[w].result
                /\ wk[w].dbBlocks0 = dbBlocks /\ wk[w].dbTxs0 = dbTxs
                /\ wk[w].op = "tx" =>
                      TxRows(last[w].arg[1]) = Range(wk[w].result)
                /\ wk[w].op = "block" =>
                      BlockRows(last[w].arg[1]) = Range(wk[w].result)

\* The second of two calls for t1 (given in another form) has returned.
C8_Witness ==
    /\ Repeated(1) /\ wk[1].pc = "done" /\ wk[1].op = "tx"
    /\ wk[1].arg = <<"T1">> /\ last[1].arg = <<"t1">>
    /\ wk[1].result = <<[tx_hash |-> "t1", block |-> "b1"]>>

\* C9 (Spec): a step that creates a Block row is a step of a call at its
\* get_or_create, and the row's confirmed flag is true exactly when the
\* height that call read minus the block's number is at least the reorg
\* depth.
C9_ConfirmationThresholdAtCreation ==
    [][\A r \in dbBlocks' \ dbBlocks :
          \E w \in env.workers :
             /\ wk[w].pc \in {"k_create", "b_block"}
             /\ wk'[w] # wk[w]
             /\ r.number = BlockNumber[r.block_hash]
             /\ r.confirmed <=>
                   (wk[w].current_block_number - r.number >= eth_reorg_blocks)]_vars

\* One batch call, having read height 3, has created block 1 (3 - 1 = R,
\* confirmed) and block 2 (3 - 2 = R - 1, not confirmed).
C9_Witness ==
    /\ \E w \in env.workers :
          /\ wk[w].pc = "b_create"
          /\ wk[w].created = {"b1", "b2"}
          /\ wk[w].current_block_number - BlockNumber["b1"] = eth_reorg_blocks
          /\ wk[w].current_block_number - BlockNumber["b2"] = eth_reorg_blocks - 1
    /\ [block_hash |-> "b1", number |-> 1, confirmed |-> TRUE] \in dbBlocks
    /\ [block_hash |-> "b2", number |-> 2, confirmed |-> FALSE] \in dbBlocks

\* C10 (Spec): a row gets a block only once the node reports the
\* transaction mined, and a row that has a block keeps that block in every
\* later state: it is linked once and never set back to null.
C10_UnminedThenMined ==
    /\ [](\A r \in dbTxs : r.block # None => chain[r.tx_hash] = "mined")
    /\ [][\A r \in dbTxs : r.block # None => r \in dbTxs']_vars

\* A row stored without block has been linked by a call and two calls that
\* both read it block-less have both returned.
C10_Witness ==
    /\ [tx_hash |-> "t2", block |-> "b2"] \in dbTxs
    /\ wk[1].pc = "done" /\ wk[1].op = "tx" /\ wk[1].arg = <<"t2">>
    /\ wk[2].pc = "done" /\ wk[2].op = "batch"
    /\ wk[2].lost = {[tx_hash |-> "t2", block |-> None]}

\* The batch call of worker w ended with one of the three fetch errors.
BatchAborted(w) ==
    /\ wk[w].pc = "failed"
    /\ wk[w].op = "batch"
    /\ wk[w].error \in {"TransactionNotFound", "TransactionWithoutBlock",
                        "BlockNotFound"}

\* Worker w has made no write: the store is as its call found it.
StoreUntouched(w) ==
    /\ wk[w].writes = 0
    /\ dbBlocks = wk[w].dbBlocks0
    /\ dbTxs = wk[w].dbTxs0

\* C13 (SpecBatch): a batch call that ends with TransactionNotFound,
\* TransactionWithoutBlock or BlockNotFound has created or changed no block
\* row and no transaction row and returns no row; while it is still fetching
\* receipts, transactions or blocks it has written nothing.
C13_BatchAbortLeavesStore ==
    \A w \in env.workers :
       /\ BatchAborted(w) => (StoreUntouched(w) /\ wk[w].result = <<>>)
       /\ wk[w].pc \in {"b_receipts", "b_txs", "b_blocks"} => StoreUntouched(w)

\* A batch of two hashes, one of them already stored with its block, has
\* ended with BlockNotFound, after its receipts and transactions were fetched.
C13_Witness ==
    /\ BatchAborted(1)
    /\ wk[1].error = "BlockNotFound"
    /\ Len(wk[1].arg) = 2
    /\ \E r \in dbTxs :
          r.block # None /\ r.tx_hash \in Range(MapSeq(wk[1].arg, HexBytesHex))

\* C14 (SpecSingle): a tx_create_or_update_from_tx_hash call that has failed
\* has created or changed no block row and no transaction row: the store is
\* as the call found it.
C14_SingleFailureLeavesStore ==
    \A w \in env.workers :
       (wk[w].pc = "failed" /\ wk[w].op = "tx") => StoreUntouched(w)

\* The tx_create_or_update_from_tx_hash call of worker w has ended, on a
\* hash the node has no record of and that was not stored with a block.
UnknownHashCallEnded(w) ==
    /\ wk[w].op = "tx"
    /\ wk[w].pc \in {"done", "failed"}
    /\ chain[HexBytesHex(wk[w].arg[1])] = "unknown"
    /\ \A r \in wk[w].dbTxs0 :
          r.tx_hash = HexBytesHex(wk[w].arg[1]) => r.block = None

\* C15 (SpecSingle): tx_create_or_update_from_tx_hash on a hash that is not
\* stored (or is stored without block) and that the node does not know has
\* asked for the receipt, asked once more, and ended with
\* TransactionNotFound: no other error and no returned row.
C15_SingleErrorKind ==
    \A w \in env.workers :
       UnknownHashCallEnded(w)
       => /\ wk[w].pc = "failed"
          /\ wk[w].error = "TransactionNotFound"
          /\ Len(Calls(w, "get_transaction_receipt")) = 2

\* Worker w is in the loop of line 186 of a batch call, past its one read of
\* current_block_number.
InBatchLoop(w) == wk[w].pc \in {"b_block", "b_create", "b_get", "b_update"}

\* The rows of the blocks the call of worker w has created so far.
CreatedRows(w) == {r \in dbBlocks : r.block_hash \in wk[w].created}

\* C16 (Spec): while a batch call runs its loop the height it read stays the
\* same whatever the chain does, every block row the call has created has
\* its confirmed flag computed against that one height, and so of two blocks
\* created by the call the lower one is confirmed whenever the higher one is.
C16_SingleHeightSnapshot ==
    /\ [](\A w \in env.workers :
             InBatchLoop(w)
             => /\ \A r \in CreatedRows(w) :
                      r.confirmed
                         <=> (wk[w].current_block_number - r.number
                                 >= eth_reorg_blocks)
                /\ \A r1, r2 \in CreatedRows(w) :
                      (r1.number <= r2.number /\ r2.confirmed) => r1.confirmed)
    /\ [][\A w \in env.workers :
             (InBatchLoop(w) /\ InBatchLoop(w)')
             => wk'[w].current_block_number = wk[w].current_block_number]_vars

\* A batch call read height 2, the chain then grew to 3, and the call has
\* created the blocks 1 and 2, both unconfirmed as seen from height 2
\* (block 1 would be confirmed as seen from height 3).
C16_Witness ==
    \E w \in env.workers :
       /\ wk[w].pc = "b_create"
       /\ wk[w].created = {"b1", "b2"}
       /\ wk[w].current_block_number = 2
       /\ height = 3
       /\ [block_hash |-> "b1", number |-> 1, confirmed |-> FALSE] \in dbBlocks

BatchFetches == {"get_transaction_receipts", "get_transactions", "get_blocks"}

\* The per-item call that stands in for an item missing from a batch answer.
SingleOf(call) ==
    CASE call = "get_transaction_receipts" -> "get_transaction_receipt"
      [] call = "get_transactions" -> "get_transaction"
      [] OTHER -> "get_block"

\* The error of an item that is still missing after its retry.
StillMissing(call) ==
    IF call = "get_blocks" THEN "BlockNotFound" ELSE "TransactionNotFound"

\* The per-item calls worker w made for item k with the call `single`.
Retries(w, single, k) ==
    SelectSeq(Calls(w, single), LAMBDA c : c.arg = <<k>>)

\* The batch fetch logged at position i is the one the call failed in.
FailedIn(w, i) ==
    /\ wk[w].pc = "failed"
    /\ \A j \in (i + 1)..Len(wk[w].rpc) :
          wk[w].rpc[j].call \notin BatchFetches

\* C17 (SpecBatch): for every batch fetch of a batch call, an item the batch
\* answer held is not fetched again; an item it lacked is fetched again at
\* most once, and exactly once if the fetch phase went through; the items
\* fetched again are the missing ones in order up to where the phase stopped;
\* and a per-item call that finds nothing is the last one of the call, which
\* fails with TransactionNotFound (receipts, transactions) or BlockNotFound
\* (blocks).
C17_SingleShotRetry ==
    \A w \in env.workers :
       wk[w].op = "batch"
       => \A i \in 1..Len(wk[w].rpc) :
             LET e == wk[w].rpc[i]
                 single == SingleOf(e.call)
                 singles == Calls(w, single)
                 n == Len(e.arg)
             IN  e.call \in BatchFetches
                 => /\ \A j \in 1..n :
                          IF e.found[j]
                          THEN Retries(w, single, e.arg[j]) = <<>>
                          ELSE /\ Len(Retries(w, single, e.arg[j])) <= 1
                               /\ ~FailedIn(w, i)
                                  => Len(Retries(w, single, e.arg[j])) = 1
                    /\ \A j, k \in 1..n :
                          (/\ j < k
                           /\ ~e.found[j]
                           /\ Retries(w, single, e.arg[k]) # <<>>)
                          => Retries(w, single, e.arg[j]) # <<>>
                    /\ \A c \in Range(singles) : c.arg[1] \in Range(e.arg)
                    /\ \A m \in 1..Len(singles) :
                          singles[m].found = <<FALSE>>
                          => /\ m = Len(singles)
                             /\ FailedIn(w, i)
                             /\ wk[w].error = StillMissing(e.call)

\* A batch call asked for two receipts, the batch answer held neither, the
\* retry for the first found nothing: the call failed there, with no retry
\* for the second.
C17_Witness ==
    \E w \in env.workers :
       /\ wk[w].op = "batch"
       /\ wk[w].pc = "failed"
       /\ wk[w].error = "TransactionNotFound"
       /\ Len(wk[w].rpc) = 2
       /\ wk[w].rpc[1].call = "get_transaction_receipts"
       /\ wk[w].rpc[1].found = <<FALSE, FALSE>>
       /\ wk[w].rpc[2].found = <<FALSE>>

\* C18 as stated (Spec): in every state each stored block is confirmed
\* exactly when the current height minus its number is at least the reorg
\* depth.
C18_BlockConfirmedIff ==
    \A r \in dbBlocks :
       r.confirmed <=> (height - r.number >= eth_reorg_blocks)

\* C18 (Spec): in every state each stored block that is confirmed lies at
\* least the reorg depth below the current height, and no step changes or
\* removes a stored block row: the flag is the one computed at creation, so
\* an unconfirmed row may lie deeper than the reorg depth.
C18_ConfirmedBlocksAreDeep ==
    /\ [](\A r \in dbBlocks :
             r.confirmed => (height - r.number >= eth_reorg_blocks))
    /\ [][\A r \in dbBlocks : r \in dbBlocks']_vars

\* Block 2 was stored unconfirmed at height 2 or 3, block 1 was stored
\* confirmed at height 3, and the chain is at height 3.
C18_Witness ==
    /\ height = 3
    /\ \E r \in dbBlocks : r.block_hash = "b1" /\ r.confirmed
    /\ \E r \in dbBlocks : r.block_hash = "b2" /\ ~r.confirmed

(***************************************************************************)
(* Reindex Loop                                                            *)
(***************************************************************************)

\* Largest block_process_limit tried.
MaxChunk == 2

\* Values of from_block_number and to_block_number.
BlockNumbers == 0..(MaxHeight + 1)

\* Values of block_process_limit: nothing in the code restricts its sign.
Limits == (0 - 1)..MaxChunk

\* to_block_number: Optional[int]; <<>> stands for None, <<n>> for n.
ToBlockNumbers == {<<>>} \cup {<<n>> : n \in BlockNumbers}

\* Python truth value of an Optional[int]: None and 0 are both false.
Truthy(to_block_number) ==
    to_block_number # <<>> /\ to_block_number[1] # 0

\* line 280: assert (not to_block_number) or to_block_number > from_block_number
AssertToBlock(from_block_number, to_block_number) ==
    (~Truthy(to_block_number)) \/ to_block_number[1] > from_block_number

\* lines 288-293: the indexer provider chosen by eth_l2_network
IndexerProvider(eth_l2_network) ==
    IF eth_l2_network THEN "SafeEventsIndexerProvider"
    ELSE "InternalTxIndexerProvider"

\* lines 296-303: the addresses given, else those the indexer tracks
ResolveAddresses(addresses, tracked) ==
    IF addresses # {} THEN addresses ELSE tracked

\* lines 310-314: min(current, to) if to_block_number else current
StopBlockNumber(current_block_number, to_block_number) ==
    IF Truthy(to_block_number)
    THEN IF current_block_number < to_block_number[1]
         THEN current_block_number ELSE to_block_number[1]
    ELSE current_block_number

\* line 316: while block_number < stop_block_number
LoopCondition(block_number, stop_block_number) ==
    block_number < stop_block_number

\* line 321: block_number += block_process_limit
Advance(block_number, block_process_limit) ==
    block_number + block_process_limit

\* The calls one run may log; a run of at most MaxHeight + 1 chunks logs
\* fewer, so only a loop that does not end reaches it.
MaxCalls == 2 * (MaxHeight + 2) + 1

ReindexIdle ==
    [pc |-> "idle", error |-> "none",
     from_block_number |-> 0, to_block_number |-> <<>>,
     block_process_limit |-> 0, addresses |-> {}, tracked |-> {},
     indexer |-> "none", ignore_addresses_on_log_filter |-> "default",
     current_block_number |-> 0, stop_block_number |-> 0,
     block_number |-> 0, elements |-> <<>>, calls |-> <<>>]

\* lines 263-280: the call and its assert
ReindexMasterCopies(from_block_number, to_block_number, block_process_limit,
                    addresses, tracked) ==
    /\ ri.pc = "idle"
    /\ ri' = [ReindexIdle EXCEPT
                 !.from_block_number = from_block_number,
                 !.to_block_number = to_block_number,
                 !.block_process_limit = block_process_limit,
                 !.addresses = addresses,
                 !.tracked = tracked,
                 !.pc = IF AssertToBlock(from_block_number, to_block_number)
                        THEN "provider" ELSE "done",
                 !.error = IF AssertToBlock(from_block_number, to_block_number)
                           THEN "none" ELSE "AssertionError"]
    /\ UNCHANGED ovars

\* lines 282-306: indexer, client, address resolution, `if not addresses`
ReindexAddresses(eth_l2_network) ==
    /\ ri.pc = "provider"
    /\ LET resolved == ResolveAddresses(ri.addresses, ri.tracked)
       IN  ri' = [ri EXCEPT
                     !.indexer = IndexerProvider(eth_l2_network),
                     !.ignore_addresses_on_log_filter =
                         IF ri.addresses # {} THEN "False" ELSE @,
                     !.addresses = resolved,
                     !.pc = IF resolved = {} THEN "done" ELSE "height"]
    /\ UNCHANGED ovars

\* lines 307-315: current_block_number, stop_block_number, block_number
ReindexHeight ==
    /\ ri.pc = "height"
    /\ ri' = [ri EXCEPT
                 !.current_block_number = height,
                 !.stop_block_number =
                     StopBlockNumber(height, ri.to_block_number),
                 !.block_number = ri.from_block_number,
                 !.calls = Append(@, [call |-> "current_block_number",
                                      arg |-> <<>>]),
                 !.pc = "loop"]
    /\ UNCHANGED ovars

\* lines 316-319: the loop test holds, indexer.find_relevant_elements
ReindexFind ==
    /\ ri.pc = "loop"
    /\ LoopCondition(ri.block_number, ri.stop_block_number)
    /\ Len(ri.calls) < MaxCalls
    /\ LET range == <<ri.block_number,
                      ri.block_number + ri.block_process_limit>>
       IN  ri' = [ri EXCEPT
                     !.elements = range,
                     !.calls = Append(@, [call |-> "find_relevant_elements",
                                          arg |-> range]),
                     !.pc = "process"]
    /\ UNCHANGED ovars

\* lines 320-321: indexer.process_elements(elements), block_number += limit
ReindexProcess ==
    /\ ri.pc = "process"
    /\ ri' = [ri EXCEPT
                 !.calls = Append(@, [call |-> "process_elements",
                                      arg |-> ri.elements]),
                 !.block_number = Advance(@, ri.block_process_limit),
                 !.pc = "loop"]
    /\ UNCHANGED ovars

\* lines 316 and 328: the loop test fails, the call ends
ReindexEnd ==
    /\ ri.pc = "loop"
    /\ ~LoopCondition(ri.block_number, ri.stop_block_number)
    /\ ri' = [ri EXCEPT !.pc = "done"]
    /\ UNCHANGED ovars

\* The caller takes the outcome.
ReindexReturn ==
    /\ ri.pc = "done"
    /\ ri' = ReindexIdle
    /\ UNCHANGED ovars

(***************************************************************************)
(* Reindex Loop: properties                                                *)
(***************************************************************************)

\* The find_relevant_elements ranges of a call log, in call order.
Finds(calls) ==
    LET finds == SelectSeq(calls, LAMBDA c : c.call = "find_relevant_elements")
    IN  [k \in 1..Len(finds) |-> finds[k].arg]

\* to_block_number was supplied by the caller (it is not None).
Supplied(to_block_number) == to_block_number # <<>>

\* C11 (SpecReindex): a call whose supplied to_block_number is at most its
\* from_block_number, 0 included, has failed at once: it ends with the
\* assertion error and has read no chain height and called neither
\* find_relevant_elements nor process_elements.
C11_ReindexPrecondition ==
    (/\ ri.pc # "idle"
     /\ Supplied(ri.to_block_number)
     /\ ri.to_block_number[1] <= ri.from_block_number)
    => (/\ ri.pc = "done"
        /\ ri.error = "AssertionError"
        /\ ri.calls = <<>>)

\* The stop block as the chunking rule states it: the height clamped by
\* every supplied to_block_number.
StatedStop(current_block_number, to_block_number) ==
    IF Supplied(to_block_number) /\ to_block_number[1] < current_block_number
    THEN to_block_number[1] ELSE current_block_number

\* ceil((stop - from) / c) chunks of c blocks starting at from, none when
\* stop <= from.
StatedChunks(from_block_number, stop, c) ==
    LET n == IF stop <= from_block_number THEN 0
             ELSE ((stop - from_block_number) + (c - 1)) \div c
    IN  [k \in 1..n |-> <<from_block_number + (k - 1) * c,
                          from_block_number + k * c>>]

\* Every find_relevant_elements is directly followed by process_elements on
\* its result.
EachFindProcessed(calls) ==
    \A j \in 1..Len(calls) :
       calls[j].call = "find_relevant_elements"
       => /\ j < Len(calls)
          /\ calls[j + 1] = [call |-> "process_elements", arg |-> calls[j].arg]

\* A finished call on a non-empty address set with a chunk size of at least 1.
ChunkedCallEnded ==
    /\ ri.pc = "done"
    /\ ResolveAddresses(ri.addresses, ri.tracked) # {}
    /\ ri.block_process_limit >= 1

\* The height the finished call read (none was read if its assert failed,
\* and then the stated stop is at most from_block_number for every height).
HeightRead ==
    IF ri.error = "AssertionError" THEN height ELSE ri.current_block_number

\* C12 (SpecReindex): a finished call on a non-empty address set with chunk
\* size c >= 1 has issued exactly the find_relevant_elements calls
\* [from + k*c, from + (k+1)*c) for k below ceil((stop - from)/c), stop being
\* the height read clamped by the supplied to_block_number, each followed by
\* process_elements on its result.
C12_ReindexChunking ==
    ChunkedCallEnded
    => /\ Finds(ri.calls)
            = StatedChunks(ri.from_block_number,
                           StatedStop(HeightRead, ri.to_block_number),
                           ri.block_process_limit)
       /\ EachFindProcessed(ri.calls)

\* The chunking rule for the calls whose to_block_number is absent or not 0.
ChunkingUnlessToBlockZero ==
    (ChunkedCallEnded /\ ri.to_block_number # <<0>>) => C12_ReindexChunking

\* A call that passed its assert and has not ended.
ReindexRunning == ri.pc \in {"provider", "height", "loop", "process"}

\* Termination for the calls whose block_process_limit is at least 1.
TerminatesWhenLimitPositive ==
    []((ReindexRunning /\ ri.block_process_limit >= 1) => <>(ri.pc = "done"))

\* C20 (SpecReindexFair): every call that passed its assert ends, whatever
\* block_process_limit is; each iteration strictly increases block_number;
\* and every requested range ends less than block_process_limit blocks past
\* stop_block_number.
C20_ReindexTermination ==
    /\ [](ReindexRunning => <>(ri.pc = "done"))
    /\ [][(ri.pc = "process" /\ ri'.pc = "loop")
          => ri'.block_number > ri.block_number]_vars
    /\ [](\A j \in 1..Len(Finds(ri.calls)) :
             Finds(ri.calls)[j][2]
                < ri.stop_block_number + ri.block_process_limit)

(***************************************************************************)
(* Specifications                                                          *)
(***************************************************************************)

RECURSIVE SeqsUpTo(_, _)
SeqsUpTo(S, n) ==
    IF n = 0 THEN {<<>>}
    ELSE LET shorter == SeqsUpTo(S, n - 1)
         IN  shorter \cup {Append(s, x) : s \in shorter, x \in S}

\* Transactions stored before being mined (by the service's other writers).
Unmined(hs) == {[tx_hash |-> h, block |-> None] : h \in hs}

ReprocessAtRest ==
    /\ derived = [confirmations |-> {}, multisig |-> {}, module |-> {},
                  status |-> {}, internal |-> {}]
    /\ txn = derived
    /\ rp = RpIdle

ReconciliationAtRest ==
    /\ env = [workers |-> {}, raw |-> {}, batches |-> {}, flaky |-> FALSE,
              track |-> FALSE]
    /\ height = 2
    /\ chain = [h \in Hashes |-> "mined"]
    /\ dbBlocks = {}
    /\ dbTxs = {}
    /\ wk = [w \in W |-> Idle]
    /\ last = [w \in W |-> NoLast]

InitReprocess ==
    /\ derived \in Stores
    /\ txn = derived
    /\ rp = RpIdle
    /\ ReconciliationAtRest
    /\ ri = ReindexIdle

NextReprocess ==
    \/ \E addresses \in SUBSET Addresses : ReprocessAddresses(addresses)
    \/ ReprocessAll
    \/ Step1
    \/ Step2
    \/ Step3
    \/ Step4
    \/ Step5
    \/ Commit
    \/ StepFails
    \/ ReprocessDone

SpecReprocess == InitReprocess /\ [][NextReprocess]_vars

NextReconciliation ==
    \/ \E w \in env.workers, bh \in BlockHashes : CallBlock(w, bh)
    \/ \E w \in env.workers, x \in env.raw : CallTx(w, x)
    \/ \E w \in env.workers, s \in env.batches : CallBatch(w, s)
    \/ \E w \in env.workers : BlockGet(w)
    \/ \E w \in env.workers : BlockFetch(w)
    \/ \E w \in env.workers : BlockCreate(w)
    \/ \E w \in env.workers : TxGet(w)
    \/ \E w \in env.workers : TxReceipt(w)
    \/ \E w \in env.workers : TxUpdate(w)
    \/ \E w \in env.workers : TxFetchTx(w)
    \/ \E w \in env.workers : TxCreate(w)
    \/ \E w \in env.workers : BatchQuery(w)
    \/ \E w \in env.workers : BatchReceipts(w)
    \/ \E w \in env.workers : BatchTxs(w)
    \/ \E w \in env.workers : BatchBlocks(w)
    \/ \E w \in env.workers : BatchBlock(w)
    \/ \E w \in env.workers : BatchCreate(w)
    \/ \E w \in env.workers : BatchGet(w)
    \/ \E w \in env.workers : BatchUpdate(w)
    \/ \E w \in env.workers : Return(w)
    \/ NewBlock
    \/ \E h \in Hashes : MineTx(h)

\* One caller, every input form, a node that may miss any answer.
InitSeq ==
    /\ ReprocessAtRest
    /\ env = [workers |-> {1}, raw |-> RawHashes,
              batches |-> SeqsUpTo(RawHashes, MaxLen) \ {<<>>},
              flaky |-> TRUE, track |-> TRUE]
    /\ height = 2
    /\ chain \in {c \in [Hashes -> {"unknown", "pending", "mined"}] :
                     c["t1"] = "mined" /\ c["t2"] # "unknown"}
    /\ dbBlocks = {}
    /\ dbTxs \in {Unmined(hs) : hs \in SUBSET Hashes}
    /\ wk = [w \in W |-> Idle]
    /\ last = [w \in W |-> NoLast]
    /\ ri = ReindexIdle

\* The single-hash calls, one after the other.
NextSingle ==
    \/ \E w \in env.workers, bh \in BlockHashes : CallBlock(w, bh)
    \/ \E w \in env.workers, x \in env.raw : CallTx(w, x)
    \/ \E w \in env.workers : BlockGet(w)
    \/ \E w \in env.workers : BlockFetch(w)
    \/ \E w \in env.workers : BlockCreate(w)
    \/ \E w \in env.workers : TxGet(w)
    \/ \E w \in env.workers : TxReceipt(w)
    \/ \E w \in env.workers : TxUpdate(w)
    \/ \E w \in env.workers : TxFetchTx(w)
    \/ \E w \in env.workers : TxCreate(w)
    \/ \E w \in env.workers : Return(w)
    \/ NewBlock
    \/ \E h \in Hashes : MineTx(h)

SpecSingle == InitSeq /\ [][NextSingle]_vars

\* The batch calls, one after the other.
NextBatch ==
    \/ \E w \in env.workers, s \in env.batches : CallBatch(w, s)
    \/ \E w \in env.workers : BatchQuery(w)
    \/ \E w \in env.workers : BatchReceipts(w)
    \/ \E w \in env.workers : BatchTxs(w)
    \/ \E w \in env.workers : BatchBlocks(w)
    \/ \E w \in env.workers : BatchBlock(w)
    \/ \E w \in env.workers : BatchCreate(w)
    \/ \E w \in env.workers : BatchGet(w)
    \/ \E w \in env.workers : BatchUpdate(w)
    \/ \E w \in env.workers : Return(w)
    \/ \E h \in Hashes : MineTx(h)

\* One caller of the batch call, at a fixed chain height.
InitBatch ==
    /\ ReprocessAtRest
    /\ env = [workers |-> {1}, raw |-> {},
              batches |-> (SeqsUpTo({"T1", "t2", "t3"}, MaxLen) \ {<<>>})
                          \cup {<<"t1", "T1">>, <<"T1", "t2", "t1">>},
              flaky |-> TRUE, track |-> TRUE]
    /\ height = 2
    /\ chain \in {c \in [Hashes -> {"unknown", "pending", "mined"}] :
                     c["t1"] = "mined" /\ c["t2"] # "unknown"
                     /\ c["t3"] # "pending"}
    /\ dbBlocks = {}
    /\ dbTxs \in {Unmined(hs) : hs \in SUBSET {"t1", "t2"}}
    /\ wk = [w \in W |-> Idle]
    /\ last = [w \in W |-> NoLast]
    /\ ri = ReindexIdle

SpecBatch == InitBatch /\ [][NextBatch]_vars

\* Two concurrent callers on the hashes t1 and t2.
Init ==
    /\ ReprocessAtRest
    /\ env = [workers |-> W, raw |-> {"t1", "t2"},
              batches |-> SeqsUpTo({"t1", "t2"}, 2) \ {<<>>},
              flaky |-> FALSE, track |-> FALSE]
    /\ height = 2
    /\ chain \in {c \in [Hashes -> {"unknown", "pending", "mined"}] :
                     c["t1"] = "mined" /\ c["t2"] # "unknown"
                     /\ c["t3"] = "unknown"}
    /\ dbBlocks = {}
    /\ dbTxs \in {Unmined(hs) : hs \in SUBSET {"t1", "t2"}}
    /\ wk = [w \in W |-> Idle]
    /\ last = [w \in W |-> NoLast]
    /\ ri = ReindexIdle

Next == NextReconciliation

Spec == Init /\ [][Next]_vars

ReindexAtRest == ri = ReindexIdle

\* One reindex job beside a growing chain.
InitReindex ==
    /\ ReprocessAtRest
    /\ ReconciliationAtRest
    /\ ReindexAtRest

\* The steps of a reindex call in progress.
ReindexStep ==
    \/ \E eth_l2_network \in BOOLEAN : ReindexAddresses(eth_l2_network)
    \/ ReindexHeight
    \/ ReindexFind
    \/ ReindexProcess
    \/ ReindexEnd

NextReindex ==
    \/ \E from_block_number \in BlockNumbers,
          to_block_number \in ToBlockNumbers,
          block_process_limit \in Limits,
          addresses \in {{}, {"A"}},
          tracked \in {{}, {"A", "B"}} :
          ReindexMasterCopies(from_block_number, to_block_number,
                              block_process_limit, addresses, tracked)
    \/ ReindexStep
    \/ ReindexReturn
    \/ NewBlock

SpecReindex == InitReindex /\ [][NextReindex]_vars

\* The job is a sequential program: a call in progress takes its next step.
SpecReindexFair == SpecReindex /\ WF_vars(ReindexStep)


=============================================================================
